---------------------------- MODULE Spec2Model ----------------------------
(***************************************************************************)
(* Model of weather_station.py: the Sense HAT weather station.  main()     *)
(* validates the configuration and initialises the Sense HAT, then         *)
(* processing_loop() samples the sensors on every 5-second mark of the     *)
(* wall clock, smooths the CPU-compensated temperature over the last three *)
(* readings and, once per eligible minute, renders the direction of the    *)
(* temperature change and uploads the measurement.                         *)
(*                                                                         *)
(* Temperatures are Python floats.  They are modelled as binary floating   *)
(* point numbers of Prec significant bits (instead of 53), rounded to      *)
(* nearest, ties to even, and written as integer multiples of 2^-FracBits. *)
(* The wall clock is a number of seconds counted from the top of an hour.  *)
(***************************************************************************)
EXTENDS Integers, Sequences, FiniteSets, TLC

VARIABLES
    pc,                    \* position of the single thread of control
    exit_code,             \* process exit status, once pc = "exited"
    interrupted,           \* whether a KeyboardInterrupt has been delivered
    now,                   \* the wall clock, in seconds
    deadline,              \* the wall-clock time at which observation ends
    climate,               \* the humidity-sensor temperatures of this run
    MEASUREMENT_INTERVAL,  \* line 28: the cadence, an optional integer
    WEATHER_UPLOAD,        \* line 31
    wu_station_id,         \* line 78/279: optional string
    wu_station_key,        \* line 79/280: optional string
    smooth_t,              \* get_smooth.t: <<>> while the attribute is missing
    last_temp,             \* processing_loop local, line 140
    last_minute,           \* processing_loop local, line 144
    current_minute,        \* processing_loop local, line 184 (None: unbound)
    temp_f,                \* processing_loop local, line 177 (None: unbound)
    pixels,                \* what the LED matrix shows
    renders,               \* the set_pixels calls of the latest loop iteration
    sampled,               \* whether the latest loop iteration read the sensors
    upload_event,          \* whether the latest loop iteration passed line 193
    upload_log,            \* the absolute minutes of the upload events so far
    minute_read_at,        \* the absolute minute in which line 184 last ran
    loop_started_at,       \* the wall-clock second at which line 144 ran
    startup_reading,       \* what get_temp returned at line 140 (None: not yet)
    requests,              \* the number of urlopen calls so far
    upload_result,         \* outcome of the latest urlopen call
    calls,                 \* the inputs of the estimator calls (estimator runs)
    ret                    \* the value the estimator last returned (estimator runs)

vars == <<pc, exit_code, interrupted, now, deadline, climate, MEASUREMENT_INTERVAL, WEATHER_UPLOAD,
          wu_station_id, wu_station_key, smooth_t, last_temp, last_minute,
          current_minute, temp_f, pixels, renders, sampled, upload_event,
          upload_log, minute_read_at, loop_started_at, startup_reading,
          requests, upload_result, calls, ret>>

----------------------------------------------------------------------------
(* Bounds of the model.                                                    *)

\* Significant bits of a float (53 in the program).
Prec == 11
\* A float is an integer multiple of 2^-FracBits.
FracBits == 14
\* The estimator runs make at most this many get_smooth calls.
MaxCalls == 3
\* The estimator runs draw inputs from MaxStep+1 consecutive floats.
MaxStep == 15
\* Seconds of wall-clock time a run of the program is followed for.
MaxElapsed == 150
\* Seconds followed in the runs that range over every start-up minute.
StartupElapsed == 1
\* The longest time, in seconds, a blocking call is seen to take.
LongDelay == 70
\* time.sleep(1) returns after 1..MaxSleep seconds of wall-clock time.
MaxSleep == 2
\* Seconds followed in the runs with a changing temperature.
DirectionElapsed == 16
\* The get_temp runs draw the humidity-sensor temperature from
\* MaxTempStep+1 values a quarter of a degree apart (and 24.0).
MaxTempStep == 2

\* Line 28.
DefaultInterval == 10

----------------------------------------------------------------------------
(* Python values.                                                          *)

\* None, and a value that is not None.
None == <<>>
Some(v) == <<v>>
Val(o) == o[1]

RECURSIVE Pow2(_)
Pow2(k) == IF k = 0 THEN 1 ELSE 2 * Pow2(k - 1)
\* 2^Prec and 2^FracBits.
TwoPrec == Pow2(Prec)
One == Pow2(FracBits)

Abs(a) == IF a < 0 THEN 0 - a ELSE a

(* a % b as Python computes it for b # 0: the result has the sign of b. *)
PyMod(a, b) == IF b > 0 THEN a % b ELSE 0 - ((0 - a) % (0 - b))

----------------------------------------------------------------------------
(* Float arithmetic: every operation returns the exact result rounded to   *)
(* the nearest float, ties to even.                                        *)

\* The spacing of the floats around num/den (den > 0).
RECURSIVE Quantum(_, _, _)
Quantum(num, den, u) ==
    IF Abs(num) >= TwoPrec * u * den THEN Quantum(num, den, 2 * u) ELSE u

\* The integer nearest to num/den (den > 0), ties to the even one.
RoundHalfEven(num, den) ==
    LET f == num \div den
        r == num - f * den
    IN  IF 2 * r < den THEN f
        ELSE IF 2 * r > den THEN f + 1
        ELSE IF f % 2 = 0 THEN f ELSE f + 1

\* The integer nearest to num/den (den > 0), ties away from zero.
RoundHalfAway(num, den) ==
    LET a == Abs(num)
        f == a \div den
        m == IF 2 * (a - f * den) >= den THEN f + 1 ELSE f
    IN  IF num < 0 THEN 0 - m ELSE m

\* The float nearest to num/den.
RN(num, den) ==
    LET u == Quantum(num, den, 1) IN u * RoundHalfEven(num, den * u)

\* The float a decimal literal num/den denotes.
Lit(num, den) == RN(num * One, den)

\* The number of trailing zero bits of a (0 for a = 0).
RECURSIVE Trailing(_)
Trailing(a) == IF a = 0 \/ a % 2 = 1 THEN 0 ELSE 1 + Trailing(a \div 2)

FAdd(a, b) == RN(a + b, 1)
FSub(a, b) == RN(a - b, 1)
FMul(a, b) ==
    LET za == Trailing(a)
        zb == Trailing(b)
        p  == (a \div Pow2(za)) * (b \div Pow2(zb))
    IN  IF za + zb >= FracBits
        THEN RN(p * Pow2(za + zb - FracBits), 1)
        ELSE RN(p, Pow2(FracBits - za - zb))
\* a / b for b > 0.
FDiv(a, b) ==
    LET zb == Trailing(b)
        mb == b \div Pow2(zb)
    IN  IF zb <= FracBits
        THEN RN(a * Pow2(FracBits - zb), mb)
        ELSE RN(a, mb * Pow2(zb - FracBits))

\* round(x, 1) of Python 2: to the nearest tenth, ties away from zero.
Round1(a) == Lit(RoundHalfAway(10 * a, One), 10)


----------------------------------------------------------------------------
(* The estimator.                                                          *)

\* The literals 1.8, 32, 3, 2 and 1.5 of lines 85, 106, 124 and 128.
F1_8 == Lit(18, 10)
F32 == Lit(32, 1)
F3 == Lit(3, 1)
F2 == Lit(2, 1)
F1_5 == Lit(15, 10)

\* c_to_f, line 85.
c_to_f(input_temp) == FAdd(FMul(input_temp, F1_8), F32)

\* Faulty variants of get_smooth: the buffer seeded with zeros, and the
\* two shifts of lines 102-103 in the other order.
get_smooth_zero_seed(t, x) ==
    LET t0 == IF t = <<>> THEN <<0, 0, 0>> ELSE t
        t3 == <<x, t0[1], t0[2]>>
    IN  [t  |-> t3,
         xs |-> FDiv(FAdd(FAdd(t3[1], t3[2]), t3[3]), F3)]
get_smooth_shift_order(t, x) ==
    LET t0 == IF t = <<>> THEN <<x, x, x>> ELSE t
        t3 == <<x, t0[1], t0[1]>>
    IN  [t  |-> t3,
         xs |-> FDiv(FAdd(FAdd(t3[1], t3[2]), t3[3]), F3)]

\* get_smooth, lines 96-107: t is get_smooth.t before the call (<<>> when
\* the attribute is missing); the result holds get_smooth.t after the call
\* and the returned value xs.
get_smooth(t, x) ==
    LET t0 == IF t = <<>> THEN <<x, x, x>> ELSE t
        t1 == [t0 EXCEPT ![3] = t0[2]]
        t2 == [t1 EXCEPT ![2] = t1[1]]
        t3 == [t2 EXCEPT ![1] = x]
    IN  [t  |-> t3,
         xs |-> FDiv(FAdd(FAdd(t3[1], t3[2]), t3[3]), F3)]

\* t_corr of get_temp, lines 124-128, from the two Sense HAT temperatures
\* and the CPU temperature.
Compensate(t1, t2, t_cpu) ==
    LET t == FDiv(FAdd(t1, t2), F2)
    IN  FSub(t, FDiv(FSub(t_cpu, t), F1_5))

\* A faulty variant of get_temp: the estimator is fed twice.
get_temp_twice(t, t1, t2, t_cpu) ==
    get_smooth(get_smooth(t, Compensate(t1, t2, t_cpu)).t,
               Compensate(t1, t2, t_cpu))

\* Another faulty variant of get_temp: the average of the two sensors is
\* smoothed as it is.
get_temp_uncompensated(t, t1, t2, t_cpu) ==
    get_smooth(t, FDiv(FAdd(t1, t2), F2))

\* get_temp, lines 110-133.
get_temp(t, t1, t2, t_cpu) == get_smooth(t, Compensate(t1, t2, t_cpu))

\* What the sensors are seen to return: the humidity sensor's temperature
\* is drawn from the run's climate.
SteadyClimate == {Lit(24, 1)}
ChangingClimate == {Lit(24, 1), Lit(769, 32), Lit(26, 1)}
PressureTemps == {Lit(22, 1)}
CpuTemps == {Lit(30, 1)}

----------------------------------------------------------------------------
(* The wall clock.                                                         *)

\* datetime.datetime.now().second and .minute at wall-clock time t.
SecondOf(t) == t % 60
MinuteOf(t) == (t \div 60) % 60
\* The wall-clock minute t falls in, counted from the first hour.
AbsMinute(t) == t \div 60

\* How long a blocking call (a sensor read, the display, urlopen) takes.
Delays == {0, 1, LongDelay}

\* A faulty variant of line 159: every tick samples.
SamplingSecond_every(second) == TRUE

\* Line 159: the second read at line 156 is a 5-second mark.
SamplingSecond(second) == (second = 0) \/ ((second % 5) = 0)

\* Line 193, for a cadence that does not make it raise.
Eligible(minute, interval) == (minute = 0) \/ (PyMod(minute, interval) = 0)
\* Line 193 raises ZeroDivisionError.
EligibleRaises(minute, interval) == (minute # 0) /\ (interval = 0)

\* Faulty variants of line 188: the guard dropped, and the guard written
\* as "the minute has grown".
CursorChanged_always(minute, cursor) == TRUE
CursorChanged_grown(minute, cursor) == minute > Val(cursor)

\* Another faulty variant of line 188: the comparison never succeeds.
CursorChanged_never(minute, cursor) == FALSE

\* Line 188: the minute read differs from the cursor.
CursorChanged(minute, cursor) == Some(minute) # cursor

\* A faulty variant of lines 242-245: the handler lets the error through.
AfterRequest_propagates(outcome) ==
    IF outcome = "error" THEN "exited" ELSE "sleep"

\* Another faulty variant: a failed request is issued again.
AfterRequest_retry(outcome) ==
    IF outcome = "error" THEN "upload" ELSE "sleep"

\* Lines 235-245: where control goes once urlopen has returned or raised.
\* The bare except of line 242 catches whatever was raised, and its handler
\* raises nothing (the e it formats is the list of line 43).
AfterRequest(outcome) == "sleep"

\* A faulty variant of line 222: the switch is not consulted.
AfterEvent_always(enabled) == "upload"

\* Lines 222 and 246-247: where control goes from an upload event, given
\* WEATHER_UPLOAD.
AfterEvent(enabled) == IF enabled THEN "upload" ELSE "sleep"

\* A faulty variant of line 281: only the station id is looked at.
CredentialsMissing_id_only(id, key) == id = None

\* Line 281.
CredentialsMissing(id, key) == (id = None) \/ (key = None)

\* A faulty variant of lines 144-148: the cursor starts at the minute read.
InitialCursor_same(minute) == minute

\* Lines 144-148.
InitialCursor(minute) ==
    LET m == minute - 1 IN IF m = 0 THEN 59 ELSE m

\* A faulty variant of lines 198-208: the arrows exchanged.
Direction_swapped(last, new) ==
    IF last # new
    THEN IF last > new THEN "arrow_up" ELSE "arrow_down"
    ELSE "bars"

\* Lines 198-208: the icon for the move from last to new.
Direction(last, new) ==
    IF last # new
    THEN IF last > new THEN "arrow_down" ELSE "arrow_up"
    ELSE "bars"

----------------------------------------------------------------------------
(* The program.                                                            *)

config == <<MEASUREMENT_INTERVAL, WEATHER_UPLOAD, wu_station_id, wu_station_key,
            deadline, climate>>
harness == <<calls, ret>>
loop_locals == <<last_temp, last_minute, current_minute, temp_f>>
display == <<pixels, renders>>
history == <<sampled, upload_event, upload_log, minute_read_at,
             loop_started_at, startup_reading>>
network == <<requests, upload_result>>

\* The process ends with exit status code; nothing else changes.
Exit(code) ==
    /\ pc' = "exited"
    /\ exit_code' = Some(code)
    /\ UNCHANGED <<now, config, harness, smooth_t, loop_locals, display,
                   history, network>>

\* main, lines 270-288: the cadence and the credentials are validated.
main_configure ==
    /\ pc = "start"
    /\ IF \/ MEASUREMENT_INTERVAL = None
          \/ Val(MEASUREMENT_INTERVAL) > 60
          \/ CredentialsMissing(wu_station_id, wu_station_key)
       THEN Exit(1) /\ UNCHANGED interrupted
       ELSE /\ pc' = "init_sense"
            /\ UNCHANGED <<exit_code, interrupted, now, config, harness, smooth_t,
                           loop_locals, display, history, network>>

\* main, lines 293-309: the Sense HAT is initialised; a failure is caught
\* by the bare except of line 301, which ends the process with status 1.
main_init_sense ==
    /\ pc = "init_sense"
    /\ \/ \E d \in Delays :
            /\ now + d <= deadline
            /\ now' = now + d
            /\ pc' = "loop_init"
            /\ UNCHANGED <<exit_code, interrupted, config, harness, smooth_t, loop_locals,
                           display, history, network>>
       \/ Exit(1) /\ UNCHANGED interrupted

\* processing_loop, lines 139-149: the first reading, then the cursor.
processing_loop_init ==
    /\ pc = "loop_init"
    /\ \E d \in Delays, t1 \in climate, t2 \in PressureTemps,
          t_cpu \in CpuTemps :
          LET r == get_temp(smooth_t, t1, t2, t_cpu) IN
          /\ now + d <= deadline
          /\ now' = now + d
          /\ smooth_t' = r.t
          /\ last_temp' = Some(Round1(c_to_f(r.xs)))
          /\ last_minute' = Some(InitialCursor(MinuteOf(now')))
          /\ loop_started_at' = now'
          /\ startup_reading' = Some(r.xs)
          /\ pc' = "tick"
          /\ UNCHANGED <<exit_code, interrupted, config, harness, current_minute, temp_f,
                         display, sampled, upload_event, upload_log,
                         minute_read_at, network>>

\* One iteration of the loop of line 152 up to the upload, lines 156-234:
\* the second is read; on a 5-second mark the sensors are read (which takes
\* d seconds), the minute is read, the cursor is compared and moved, and at
\* an eligible minute the icon is rendered and last_temp replaced.
tick ==
    /\ pc = "tick"
    /\ IF ~SamplingSecond(SecondOf(now))
       THEN /\ pc' = "sleep"
            /\ sampled' = FALSE
            /\ upload_event' = FALSE
            /\ renders' = <<>>
            /\ upload_result' = "none"
            /\ UNCHANGED <<exit_code, interrupted, now, config, harness, smooth_t,
                           loop_locals, pixels, upload_log, minute_read_at,
                           loop_started_at, startup_reading, requests>>
       ELSE \E d \in Delays, t1 \in climate, t2 \in PressureTemps,
               t_cpu \in CpuTemps :
               LET r       == get_temp(smooth_t, t1, t2, t_cpu)
                   f       == Round1(c_to_f(r.xs))
                   minute  == MinuteOf(now + d)
                   changed == CursorChanged(minute, last_minute)
                   raises  == changed /\ EligibleRaises(minute,
                                             Val(MEASUREMENT_INTERVAL))
                   event   == changed /\ ~raises /\ Eligible(minute,
                                             Val(MEASUREMENT_INTERVAL))
               IN
               /\ now + d <= deadline
               /\ now' = now + d
               /\ smooth_t' = r.t
               /\ temp_f' = Some(f)
               /\ current_minute' = Some(minute)
               /\ minute_read_at' = AbsMinute(now')
               /\ sampled' = TRUE
               /\ last_minute' = IF changed THEN Some(minute) ELSE last_minute
               /\ upload_event' = event
               /\ renders' = IF event THEN <<Direction(Val(last_temp), f)>>
                                      ELSE <<>>
               /\ pixels' = IF event THEN Direction(Val(last_temp), f)
                                     ELSE pixels
               /\ last_temp' = IF event THEN Some(f) ELSE last_temp
               /\ upload_log' = IF event
                                THEN Append(upload_log, AbsMinute(now'))
                                ELSE upload_log
               /\ upload_result' = IF event /\ ~WEATHER_UPLOAD
                                   THEN "skipped" ELSE "none"
               /\ pc' = IF raises THEN "exited"
                        ELSE IF event THEN AfterEvent(WEATHER_UPLOAD)
                        ELSE "sleep"
               /\ exit_code' = IF raises THEN Some(1) ELSE exit_code
               /\ UNCHANGED <<interrupted, config, harness, loop_started_at,
                              startup_reading, requests>>

\* A faulty variant of upload: a request that fails puts the start-up
\* temperature back into last_temp.
upload_forgets_on_error ==
    /\ pc = "upload"
    /\ \E d \in Delays, outcome \in {"ok", "error"} :
          /\ now + d <= deadline
          /\ now' = now + d
          /\ requests' = requests + 1
          /\ upload_result' = outcome
          /\ pc' = AfterRequest(outcome)
          /\ last_temp' = IF outcome = "error"
                          THEN Some(Round1(c_to_f(Val(startup_reading))))
                          ELSE last_temp
          /\ UNCHANGED <<exit_code, interrupted, config, harness, smooth_t,
                         last_minute, current_minute, temp_f, display,
                         history>>

\* Lines 235-245: the request; whatever it raises is caught by the bare
\* except of line 242, whose handler formats the module-level list e.
upload ==
    /\ pc = "upload"
    /\ \E d \in Delays, outcome \in {"ok", "error"} :
          /\ now + d <= deadline
          /\ now' = now + d
          /\ requests' = requests + 1
          /\ upload_result' = outcome
          /\ pc' = AfterRequest(outcome)
          /\ UNCHANGED <<exit_code, interrupted, config, harness, smooth_t, loop_locals,
                         display, history>>

\* Line 251.
sleep ==
    /\ pc = "sleep"
    /\ \E d \in 1..MaxSleep :
          /\ now + d <= deadline
          /\ now' = now + d
          /\ pc' = "tick"
          /\ UNCHANGED <<exit_code, interrupted, config, harness, smooth_t, loop_locals,
                         display, history, network>>

\* A faulty variant of sensor_read_raises: the read raises only once the
\* cursor has been moved.
sensor_read_raises_after_cursor ==
    /\ pc = "tick" /\ SamplingSecond(SecondOf(now))
    /\ last_minute' = Some(MinuteOf(now))
    /\ pc' = "exited"
    /\ exit_code' = Some(1)
    /\ UNCHANGED <<interrupted, now, config, harness, smooth_t, last_temp,
                   current_minute, temp_f, display, history, network>>

\* A sensor read raises: nothing catches it, and the interpreter ends the
\* process with status 1.  The reads of get_temp (lines 121-126) come before
\* the estimator is fed; those of lines 178 and 180 come after temp_f is
\* assigned and before the minute is read.
sensor_read_raises ==
    \/ /\ \/ pc = "loop_init"
          \/ pc = "tick" /\ SamplingSecond(SecondOf(now))
       /\ Exit(1)
       /\ UNCHANGED interrupted
    \/ /\ pc = "tick" /\ SamplingSecond(SecondOf(now))
       /\ \E t1 \in climate, t2 \in PressureTemps, t_cpu \in CpuTemps :
             LET r == get_temp(smooth_t, t1, t2, t_cpu) IN
             /\ smooth_t' = r.t
             /\ temp_f' = Some(Round1(c_to_f(r.xs)))
       /\ pc' = "exited"
       /\ exit_code' = Some(1)
       /\ UNCHANGED <<interrupted, now, config, harness, last_temp,
                      last_minute, current_minute, display, history, network>>

\* KeyboardInterrupt outside any try block of main and processing_loop:
\* caught at line 316.
interrupt_top_level ==
    /\ pc \in {"start", "loop_init", "tick", "sleep"}
    /\ interrupted' = TRUE
    /\ Exit(0)

\* KeyboardInterrupt inside the try block of lines 293-300: caught by the
\* bare except of line 301, which calls sys.exit(1).
interrupt_in_init ==
    /\ pc = "init_sense"
    /\ interrupted' = TRUE
    /\ Exit(1)

\* KeyboardInterrupt inside the try block of lines 235-241: caught by the
\* bare except of line 242 like any failure of the request.
interrupt_in_upload ==
    /\ pc = "upload"
    /\ \E d \in Delays :
          /\ now + d <= deadline
          /\ now' = now + d
          /\ requests' = requests + 1
          /\ upload_result' = "error"
          /\ pc' = AfterRequest("error")
          /\ interrupted' = TRUE
          /\ UNCHANGED <<exit_code, config, harness, smooth_t, loop_locals,
                         display, history>>

Next ==
    \/ main_configure
    \/ main_init_sense
    \/ processing_loop_init
    \/ tick
    \/ upload
    \/ sleep
    \/ sensor_read_raises
    \/ interrupt_top_level
    \/ interrupt_in_init
    \/ interrupt_in_upload

\* The state of a fresh process at wall-clock time start, to be followed
\* for span seconds from the position entry.
Boot(start, span, entry) ==
    /\ pc = entry
    /\ exit_code = None
    /\ interrupted = FALSE
    /\ now = start
    /\ deadline = start + span
    /\ smooth_t = <<>>
    /\ last_temp = None
    /\ last_minute = None
    /\ current_minute = None
    /\ temp_f = None
    /\ pixels = "clear"
    /\ renders = <<>>
    /\ sampled = FALSE
    /\ upload_event = FALSE
    /\ upload_log = <<>>
    /\ minute_read_at = AbsMinute(start)
    /\ loop_started_at = start
    /\ startup_reading = None
    /\ requests = 0
    /\ upload_result = "none"
    /\ calls = <<>>
    /\ ret = None

\* Wall-clock times at which the program is started: ten seconds before
\* minute 10, before minute 0 and before minute 1.
StartTimes == {9 * 60 + 50, 59 * 60 + 50, 50}
Cadences == {None, Some(0), Some(DefaultInterval), Some(61)}
Credentials == {None, Some("KSTATION1")}

Init ==
    /\ \E start \in StartTimes : Boot(start, MaxElapsed, "start")
    /\ climate = SteadyClimate
    /\ MEASUREMENT_INTERVAL \in Cadences
    /\ WEATHER_UPLOAD \in BOOLEAN
    /\ wu_station_id \in Credentials
    /\ wu_station_key \in Credentials

Spec == Init /\ [][Next]_vars


\* Runs that range over every start-up minute and every cadence, started
\* on the minute or one second before the next one.
StartupTimes == {60 * m + sec : m \in 0..59, sec \in {0, 59}}
StartupCadences == {None} \cup {Some(k) : k \in -2..62}

InitStartup ==
    /\ \E start \in StartupTimes : Boot(start, StartupElapsed, "start")
    /\ climate = SteadyClimate
    /\ MEASUREMENT_INTERVAL \in StartupCadences
    /\ WEATHER_UPLOAD = TRUE
    /\ wu_station_id = Some("KSTATION1")
    /\ wu_station_key = Some("KSTATION1")

SpecStartup == InitStartup /\ [][Next]_vars

\* Runs with a changing temperature, started five seconds before minute 10.
InitDirection ==
    /\ Boot(9 * 60 + 55, DirectionElapsed, "start")
    /\ climate = ChangingClimate
    /\ MEASUREMENT_INTERVAL \in {Some(1), Some(10)}
    /\ WEATHER_UPLOAD \in BOOLEAN
    /\ wu_station_id = Some("KSTATION1")
    /\ wu_station_key = Some("KSTATION1")

SpecDirection == InitDirection /\ [][Next]_vars

----------------------------------------------------------------------------
(* The estimator on its own: get_smooth called on a sequence of inputs.    *)

\* MaxStep+1 consecutive floats from 22.0 up.
SmoothInputs == {Lit(22, 1) + k * Quantum(Lit(22, 1), 1, 1) : k \in 0..MaxStep}

smooth_call ==
    /\ pc = "estimator"
    /\ Len(calls) < MaxCalls
    /\ \E x \in SmoothInputs :
          LET r == get_smooth(smooth_t, x) IN
          /\ smooth_t' = r.t
          /\ ret' = Some(r.xs)
          /\ calls' = Append(calls, x)
    /\ UNCHANGED <<pc, exit_code, interrupted, now, config, loop_locals, display, history,
                   network>>

InitSmooth ==
    /\ Boot(0, 0, "estimator")
    /\ climate = SteadyClimate
    /\ MEASUREMENT_INTERVAL = Some(DefaultInterval)
    /\ WEATHER_UPLOAD = TRUE
    /\ wu_station_id = None
    /\ wu_station_key = None

SpecSmooth == InitSmooth /\ [][smooth_call]_vars

\* get_temp called on a sequence of sensor readings <<t1, t2, t_cpu>>:
\* humidity-sensor temperatures from 19.0 up, and the readings 24, 22, 30.
TempInputs ==
    {<<Lit(19, 1) + k * Lit(1, 4), t2, t_cpu>> :
        k \in 0..MaxTempStep, t2 \in {Lit(22, 1), Lit(45, 2)},
        t_cpu \in {Lit(30, 1), Lit(45, 1)}}
    \cup {<<Lit(24, 1), Lit(22, 1), Lit(30, 1)>>}

temp_call ==
    /\ pc = "estimator"
    /\ Len(calls) < MaxCalls
    /\ \E in \in TempInputs :
          LET r == get_temp(smooth_t, in[1], in[2], in[3]) IN
          /\ smooth_t' = r.t
          /\ ret' = Some(r.xs)
          /\ calls' = Append(calls, in)
    /\ UNCHANGED <<pc, exit_code, interrupted, now, config, loop_locals, display, history,
                   network>>

SpecTemp == InitSmooth /\ [][temp_call]_vars

----------------------------------------------------------------------------
(* Properties.                                                             *)

InLoop == pc \in {"tick", "upload", "sleep"}
CadenceIs(k) == MEASUREMENT_INTERVAL = Some(k)
\* The minutes of the hour a cadence of 10 selects.
TenMinuteMarks == {0, 10, 20, 30, 40, 50}
Uploaded(minute) == \E i \in 1..Len(upload_log) : upload_log[i] = minute

\* C1: with MEASUREMENT_INTERVAL = 10 every upload event happens at a
\* sampling tick that read a minute in {0,10,20,30,40,50}, and no wall-clock
\* minute has two upload events.
UploadOnlyOnMarkOncePerMinute ==
    CadenceIs(10) =>
        /\ upload_event => sampled /\ Val(current_minute) \in TenMinuteMarks
        /\ \A i \in 1..Len(upload_log) : upload_log[i] % 60 \in TenMinuteMarks
        /\ \A i, j \in 1..Len(upload_log) :
              i # j => upload_log[i] # upload_log[j]

\* C1 witness: a later sampling tick of a minute that already had its
\* upload event, and that did not upload again.
SecondSampleOfUploadedMinute ==
    /\ CadenceIs(10)
    /\ sampled /\ ~upload_event
    /\ Uploaded(minute_read_at)

UploadFailureAbsorbed ==
    [][pc = "upload" =>
          /\ pc' = "sleep"
          /\ upload_result' \in {"ok", "error"}
          /\ last_minute' = last_minute
          /\ smooth_t' = smooth_t]_vars

\* C3 witness: the tick after a failed request is about to run.
NextTickAfterFailedUpload ==
    /\ upload_result = "error"
    /\ pc = "tick"

\* C4 as stated: a KeyboardInterrupt, wherever it is delivered, ends the
\* process with exit status 0.
InterruptExitsZero ==
    interrupted => pc = "exited" /\ exit_code = Some(0)


\* C4 is refuted by the two bare excepts; no amended statement is checked.

\* C5 as stated: with a cadence outside 1..60 the process never gets past
\* start-up: no sample is taken, nothing is rendered, nothing is uploaded.
InvalidCadenceStopsAtStartup ==
    (MEASUREMENT_INTERVAL # None /\ Val(MEASUREMENT_INTERVAL) \notin 1..60) =>
        /\ pc \in {"start", "exited"}
        /\ smooth_t = <<>>
        /\ pixels = "clear"
        /\ requests = 0

\* The minute before minute, on the clock face.
PreviousMinute(minute) == IF minute = 0 THEN 59 ELSE minute - 1

\* C6 as stated: until the first sampling tick moves it, the cursor is the
\* minute before the one the loop started in, 59 for minute 0.
CursorStartsAtPreviousMinute ==
    (InLoop /\ current_minute = None) =>
        last_minute = Some(PreviousMinute(MinuteOf(loop_started_at)))

\* C7: with a cadence in 1..60, when the first sampling tick reads the
\* minute the loop started in and that minute is eligible, the tick is an
\* upload event.
FirstEligibleMinuteFires ==
    [][(/\ pc = "tick"
        /\ pc' # "exited"
        /\ current_minute = None
        /\ current_minute' # None
        /\ MEASUREMENT_INTERVAL # None
        /\ Val(MEASUREMENT_INTERVAL) \in 1..60
        /\ minute_read_at' = AbsMinute(loop_started_at)
        /\ Eligible(Val(current_minute'), Val(MEASUREMENT_INTERVAL)))
       => upload_event']_vars

\* C7 witness: the upload event of a loop started in minute 0, in that
\* minute and under a cadence of 7.
UploadInStartupMinuteZero ==
    /\ CadenceIs(7)
    /\ MinuteOf(loop_started_at) = 0
    /\ upload_event
    /\ upload_log = <<AbsMinute(loop_started_at)>>

\* The floats next to x are within this distance of it.
Ulp(x) == Quantum(x, 1, 1)

\* C8 as stated: the first get_smooth call returns its input x exactly and
\* leaves the three slots equal to x.
FirstSmoothReturnsInput ==
    Len(calls) = 1 =>
        /\ ret = Some(calls[1])
        /\ smooth_t = <<calls[1], calls[1], calls[1]>>

\* C8 amended: the first get_smooth call leaves the three slots equal to
\* its input x and returns x or a float next to x.
FirstSmoothSeedsBuffer ==
    Len(calls) = 1 =>
        /\ Abs(Val(ret) - calls[1]) <= Ulp(calls[1])
        /\ smooth_t = <<calls[1], calls[1], calls[1]>>

\* C8 witness: a first call whose result is not its input.
FirstSmoothInexact ==
    /\ Len(calls) = 1
    /\ ret # Some(calls[1])

\* The i-th input, the first one standing in for those before it.
InputAt(i) == calls[IF i < 1 THEN 1 ELSE i]

\* C9 as stated: the n-th get_smooth call returns the mean of the inputs
\* n, n-1 and n-2 that exist, so the 2nd call returns the mean of the first
\* two inputs (to within the rounding of the result).
SmoothIsMeanOfExistingInputs ==
    LET n == Len(calls) IN
    /\ n = 1 => Abs(Val(ret) - calls[1]) <= Ulp(calls[1])
    /\ n = 2 => Abs(2 * Val(ret) - (calls[1] + calls[2])) <= 2 * Ulp(Val(ret))
    /\ n >= 3 => Abs(3 * Val(ret) - (calls[n] + calls[n-1] + calls[n-2]))
                    <= 3 * Ulp(Val(ret))

\* C9 amended: the n-th get_smooth call returns (c(n) + c(n-1) + c(n-2)) / 3
\* as the floats compute it, the first input standing in for the inputs
\* before it: the 2nd call returns (c2 + c1 + c1) / 3.
SmoothIsMeanOfLastThreeSeeded ==
    LET n == Len(calls) IN
    n >= 1 =>
        /\ ret = Some(FDiv(FAdd(FAdd(InputAt(n), InputAt(n-1)), InputAt(n-2)),
                           F3))
        /\ smooth_t = <<InputAt(n), InputAt(n-1), InputAt(n-2)>>

\* C9 witness: a second call with another input than the first.
SecondSmoothOfDifferentInput ==
    /\ Len(calls) = 2
    /\ calls[1] # calls[2]

\* C10: a tick that is an upload event renders one icon, arrow_up when
\* temp_f is above last_temp, arrow_down when below, bars when equal, and
\* then last_temp is temp_f; a tick that is none renders nothing; until the
\* first upload event last_temp is the Fahrenheit value, rounded as temp_f
\* is, of the reading taken at start-up.
DirectionFollowsLastTemp ==
    [][/\ (pc = "tick" /\ pc' # "exited") =>
            IF upload_event'
            THEN /\ Len(renders') = 1
                 /\ pixels' = renders'[1]
                 /\ renders'[1] =
                       (IF Val(temp_f') > Val(last_temp) THEN "arrow_up"
                        ELSE IF Val(temp_f') < Val(last_temp) THEN "arrow_down"
                        ELSE "bars")
                 /\ last_temp' = temp_f'
            ELSE /\ renders' = <<>>
                 /\ pixels' = pixels
                 /\ last_temp' = last_temp
       /\ pc # "tick" =>
            /\ pixels' = pixels
            /\ last_temp # None => last_temp' = last_temp
       /\ (InLoop' /\ upload_log' = <<>>) =>
            last_temp' = Some(Round1(c_to_f(Val(startup_reading'))))]_vars

\* C10 witness: an upload event that renders bars although the smoothed
\* reading has moved since start-up.
BarsAfterSmallMove ==
    /\ upload_event
    /\ renders = <<"bars">>
    /\ Len(upload_log) = 1
    /\ smooth_t # <<smooth_t[1], smooth_t[1], smooth_t[1]>>

\* C11: the number of requests never exceeds the number of upload events;
\* a request is issued only from the upload position, one at a time, and
\* that position is entered only by a tick that is an upload event whose
\* predecessors have all had their request: a failed request is not issued
\* again.
AtMostOneRequestPerEvent ==
    [][/\ requests' <= Len(upload_log')
       /\ (requests' # requests) =>
             /\ pc = "upload"
             /\ pc' # "upload"
             /\ requests' = requests + 1
       /\ (pc' = "upload" /\ pc # "upload") =>
             /\ pc = "tick"
             /\ upload_event'
             /\ Len(upload_log') = Len(upload_log) + 1
             /\ requests = Len(upload_log)
       /\ (pc' = "upload") => (pc # "upload")]_vars

\* C11 witness: a request has failed and the loop has gone on to its sleep
\* with as many requests issued as there were upload events.
FailedRequestNotRepeated ==
    /\ pc = "sleep"
    /\ upload_result = "error"
    /\ requests = 1
    /\ Len(upload_log) = 1

\* C12: with WEATHER_UPLOAD False no request is ever issued; and whatever
\* WEATHER_UPLOAD is, every tick on a 5-second mark feeds the estimator
\* once and moves the cursor as line 188 says, and every tick that passes
\* lines 188 and 193 is an upload event that renders its icon and replaces
\* last_temp; only where control goes from there depends on WEATHER_UPLOAD.
DisabledUploadSkipsOnlyRequest ==
    [][/\ (~WEATHER_UPLOAD) => (requests' = 0 /\ pc' # "upload")
       /\ (pc = "tick" /\ pc' # "exited" /\ SecondOf(now) % 5 = 0) =>
             /\ sampled'
             /\ smooth_t'[2] = smooth_t[1]
             /\ smooth_t'[3] = smooth_t[2]
             /\ last_minute' = current_minute'
             /\ upload_event' =
                   (/\ CursorChanged(Val(current_minute'), last_minute)
                    /\ Eligible(Val(current_minute'),
                                Val(MEASUREMENT_INTERVAL)))
             /\ upload_event' =>
                   /\ renders' = <<Direction(Val(last_temp), Val(temp_f'))>>
                   /\ pixels' = renders'[1]
                   /\ last_temp' = temp_f'
                   /\ pc' = (IF WEATHER_UPLOAD THEN "upload" ELSE "sleep")
                   /\ upload_result' =
                         (IF WEATHER_UPLOAD THEN "none" ELSE "skipped")
             /\ (~upload_event') =>
                   /\ renders' = <<>>
                   /\ pixels' = pixels
                   /\ last_temp' = last_temp
                   /\ pc' = "sleep"]_vars

\* C12 witness: an upload event with WEATHER_UPLOAD False, whose icon is on
\* the display and whose request was skipped.
UploadEventWithUploadDisabled ==
    /\ ~WEATHER_UPLOAD
    /\ upload_event
    /\ upload_result = "skipped"
    /\ pixels = "bars"
    /\ last_temp = temp_f
    /\ requests = 0

\* C13: with a station credential missing main ends the process with
\* status 1 at line 283; a Sense HAT initialisation that raises ends it with
\* status 1 at line 306; the process ended in main has not entered
\* processing_loop: no sample, no render, no upload, and no later step.
StartupFailureExitsOne ==
    [][/\ (/\ pc = "start"
           /\ ~interrupted'
           /\ wu_station_id = None \/ wu_station_key = None) =>
             (pc' = "exited" /\ exit_code' = Some(1))
       /\ (pc = "init_sense" /\ pc' = "exited") => (exit_code' = Some(1))
       /\ (pc \in {"start", "init_sense"} /\ pc' = "exited") =>
             /\ smooth_t' = <<>>
             /\ startup_reading' = None
             /\ last_minute' = None
             /\ ~sampled'
             /\ pixels' = "clear"
             /\ upload_log' = <<>>
             /\ requests' = 0
       /\ pc # "exited"]_vars

\* C13 witness: the process has ended with status 1 with the cadence valid
\* and the station id present, the station key missing.
ExitedOneInMain ==
    /\ pc = "exited"
    /\ exit_code = Some(1)
    /\ ~interrupted
    /\ CadenceIs(DefaultInterval)
    /\ wu_station_id # None
    /\ wu_station_key = None
    /\ startup_reading = None

\* C14: with a cadence other than 0, a tick that ends the process with
\* status 1 is a sampling tick one of whose sensor reads raised: it leaves
\* the cursor, last_temp, the display and the request count as they were
\* and is no upload event; and a process that has ended takes no further
\* step.
SensorFailureEndsLoop ==
    [][/\ (/\ pc = "tick"
           /\ pc' = "exited"
           /\ exit_code' = Some(1)
           /\ MEASUREMENT_INTERVAL # Some(0)) =>
             /\ SecondOf(now) % 5 = 0
             /\ last_minute' = last_minute
             /\ current_minute' = current_minute
             /\ last_temp' = last_temp
             /\ pixels' = pixels
             /\ upload_log' = upload_log
             /\ requests' = requests
       /\ pc # "exited"]_vars

\* C14 witness: the process has ended in a sampling tick of a minute the
\* cursor had not reached, after the estimator was fed in that tick.
SensorFailedBeforeCursorMoved ==
    /\ pc = "exited"
    /\ exit_code = Some(1)
    /\ ~interrupted
    /\ CadenceIs(DefaultInterval)
    /\ temp_f # None
    /\ current_minute = None
    /\ last_minute # Some(MinuteOf(now))

\* C15 as stated: from the initialisation of the cursor onwards, in every
\* state of processing_loop, last_minute is an integer in 0..59 (already
\* for the cadences 1..60).
CursorIsMinuteOfHour ==
    (InLoop /\ Val(MEASUREMENT_INTERVAL) \in 1..60) =>
        (last_minute # None /\ Val(last_minute) \in 0..59)

\* C15 is refuted by lines 146-148, which leave -1 in the cursor of a loop
\* started in minute 0; no amended statement is checked.

\* C16: a tick whose second is not a multiple of 5 reads no sensor, does
\* not feed the estimator, renders nothing, is no upload event and issues
\* no request, leaves the buffer, the cursor, last_temp and the display as
\* they were and goes on to the sleep; a tick whose second is a multiple of
\* 5 (0 included) that does not end the process feeds the estimator once
\* and assigns temp_f and current_minute.
OffMarkTickIsNoOp ==
    [][(pc = "tick" /\ pc' # "exited") =>
          IF SecondOf(now) % 5 # 0
          THEN /\ pc' = "sleep"
               /\ ~sampled'
               /\ ~upload_event'
               /\ renders' = <<>>
               /\ now' = now
               /\ UNCHANGED <<smooth_t, last_minute, last_temp, temp_f,
                              current_minute, pixels, upload_log, requests>>
          ELSE /\ sampled'
               /\ smooth_t'[2] = smooth_t[1]
               /\ smooth_t'[3] = smooth_t[2]
               /\ temp_f' # None
               /\ current_minute' = Some(MinuteOf(now'))]_vars

\* C16 witness: a tick off the 5-second marks has run in a loop that has
\* sampled before.
OffMarkTickDone ==
    /\ pc = "sleep"
    /\ SecondOf(now) % 5 # 0
    /\ ~sampled
    /\ temp_f # None

\* C17: a sampling tick that reads a minute other than the cursor stores
\* that minute in the cursor, eligible or not; one that reads the minute
\* the cursor holds leaves the cursor, last_temp and the display as they
\* were, is no upload event and issues no request; so after every sampling
\* tick the cursor is the minute that tick read.
CursorFollowsMinuteRead ==
    [][(pc = "tick" /\ pc' # "exited" /\ sampled') =>
          /\ IF current_minute' # last_minute
             THEN last_minute' = current_minute'
             ELSE /\ last_minute' = last_minute
                  /\ last_temp' = last_temp
                  /\ pixels' = pixels
                  /\ renders' = <<>>
                  /\ ~upload_event'
                  /\ upload_log' = upload_log
                  /\ pc' = "sleep"
          /\ last_minute' = Some(MinuteOf(now'))]_vars

\* C17 witness: under a cadence of 10 the first sampling tick of a loop
\* started in minute 9 has moved the cursor from 8 to 9 without an upload
\* event.
CursorMovedToIneligibleMinute ==
    /\ CadenceIs(10)
    /\ MinuteOf(loop_started_at) = 9
    /\ sampled
    /\ ~upload_event
    /\ upload_log = <<>>
    /\ last_minute = Some(9)

\* The buffer new is the buffer old after one compensated reading has been
\* fed to the estimator.
FedOnce(old, new) ==
    \E t1 \in climate, t2 \in PressureTemps, t_cpu \in CpuTemps :
        LET x == Compensate(t1, t2, t_cpu) IN
        new = IF old = <<>> THEN <<x, x, x>> ELSE <<x, old[1], old[2]>>

\* C18: the start-up reading feeds the estimator once, on an empty buffer;
\* every sampling tick feeds it once, upload event or not, whatever became
\* of earlier requests; no other step touches the buffer; the buffer is
\* empty (exactly until the start-up reading) or holds 3 values, is never
\* emptied again, and after a feed holds the input just fed and then the
\* two newest values it held before.
EstimatorFedOncePerSample ==
    [][/\ (pc = "loop_init" /\ pc' = "tick") =>
             (smooth_t = <<>> /\ FedOnce(smooth_t, smooth_t'))
       /\ (pc = "tick" /\ pc' # "exited") =>
             IF SecondOf(now) % 5 = 0
             THEN FedOnce(smooth_t, smooth_t')
             ELSE smooth_t' = smooth_t
       /\ (pc \notin {"loop_init", "tick"}) => (smooth_t' = smooth_t)
       /\ (smooth_t' = <<>>) \/ (Len(smooth_t') = 3)
       /\ (smooth_t # <<>>) => (smooth_t' # <<>>)
       /\ (smooth_t' = <<>>) = (startup_reading' = None)]_vars

\* C18 witness: a sampling tick that came after an upload event and was
\* none itself has left three different inputs in the buffer.
BufferShiftedAfterUploadEvent ==
    /\ sampled
    /\ ~upload_event
    /\ Len(upload_log) = 1
    /\ requests = 1
    /\ smooth_t[1] # smooth_t[2]
    /\ smooth_t[2] # smooth_t[3]
    /\ smooth_t[1] # smooth_t[3]

\* C19: the tick that is an upload event renders the icon for the move
\* from last_temp to temp_f and stores temp_f in last_temp before any
\* request is issued; the request, whether it succeeds or fails, and the
\* skipping of it leave last_temp, temp_f and the display alone; last_temp
\* changes in no other step, so from an upload event until the next
\* sampling tick it is that event's temp_f, and the next event compares
\* against it.
LastTempIsLastAttempted ==
    [][/\ (pc = "tick" /\ pc' # "exited" /\ upload_event') =>
             /\ renders' = <<Direction(Val(last_temp), Val(temp_f'))>>
             /\ last_temp' = temp_f'
             /\ requests' = requests
             /\ upload_result' \in {"none", "skipped"}
       /\ (pc = "upload") =>
             /\ upload_result' \in {"ok", "error"}
             /\ UNCHANGED <<last_temp, temp_f, pixels, upload_event>>
       /\ (last_temp # None /\ last_temp' # last_temp) =>
             (pc = "tick" /\ pc' # "exited" /\ upload_event')
       /\ (pc' # "exited" /\ upload_event') => (last_temp' = temp_f')]_vars

\* C19 witness: the request of an upload event has failed, and last_temp
\* is that event's temp_f, another value than the start-up one.
LastTempKeptAfterFailedRequest ==
    /\ upload_event
    /\ upload_result = "error"
    /\ last_temp = temp_f
    /\ last_temp # Some(Round1(c_to_f(Val(startup_reading))))
    /\ pixels # "bars"

\* Every get_temp call so far was given the same sensor readings.
SameReadings == \A i \in 1..Len(calls) : calls[i] = calls[1]
\* t_corr of line 128 for the readings of the first call.
Compensated == Compensate(calls[1][1], calls[1][2], calls[1][3])

\* C20 as stated: get_temp given the same readings on every call returns,
\* on every call, the compensated value of line 128.
SameReadingsReturnCompensated ==
    (Len(calls) >= 1 /\ SameReadings) => ret = Some(Compensated)

\* C20 amended: get_temp given the same readings on every call returns the
\* same value on every call, (x + x + x) / 3 as the floats compute it for
\* the compensated value x of line 128, which is x or a float next to x;
\* the three slots hold x.
SameReadingsReturnSmoothedCompensated ==
    (Len(calls) >= 1 /\ SameReadings) =>
        /\ ret = Some(FDiv(FAdd(FAdd(Compensated, Compensated), Compensated),
                           F3))
        /\ Abs(Val(ret) - Compensated) <= Ulp(Compensated)
        /\ smooth_t = <<Compensated, Compensated, Compensated>>

\* C20 witness: the third call with the same readings has returned another
\* value than the compensated one.
ThirdSameReadingInexact ==
    /\ Len(calls) = 3
    /\ SameReadings
    /\ ret # Some(Compensated)

============================================================================
